---- MODULE Spec2Model ----
(***************************************************************************)
(* A model of the ArrowVortex clipboard codec (arrowvortex_clipboard):     *)
(* the base85 dword transcoder, the varint and fixed-width field codecs,   *)
(* and the note and tempo stream encoders and decoders.                    *)
(*                                                                         *)
(* Representation of machine integers.  TLC's integers are 32-bit signed,  *)
(* so a u32 or u64 is kept as a little-endian sequence of 16-bit limbs     *)
(* (2 limbs for a u32, 4 for a u64); an f64 is kept as the u64 of its      *)
(* IEEE-754 bits.  A u8 is an integer in 0..255.  Text is a sequence of    *)
(* character codes.                                                        *)
(***************************************************************************)
EXTENDS Integers, Sequences, FiniteSets, TLC

VARIABLES
    writer,     \* the sink behind `&mut dyn core::fmt::Write`
    encoder,    \* a Base85Encoder in use: buffer, buffer_i, its writer
    written,    \* the bytes handed to Base85Encoder::write by the last call
    input,      \* the argument of the last call
    call,       \* the operation that ran last
    result,     \* what the last encode call returned
    clipboard,  \* the text handed to a decoder
    decoded,    \* what the last decode call returned
    data        \* the byte iterator a decoder reads from: bytes and cursor

vars == <<writer, encoder, written, input, call, result, clipboard, decoded, data>>

\* LET x == v IN F(x), with v evaluated once: x is bound to v's value
Let(v, F(_)) == CHOOSE r \in {F(x) : x \in {v}} : TRUE

(***************************************************************************)
(* Machine arithmetic on 16-bit limbs                                      *)
(***************************************************************************)
Limb == 256 * 256

\* n < 2^31 as a u32
U32(n) == <<n % Limb, n \div Limb>>

\* n < 2^31 as a u64
U64(n) == <<n % Limb, n \div Limb, 0, 0>>

MaxU64 == <<Limb - 1, Limb - 1, Limb - 1, Limb - 1>>

MaxU32 == <<Limb - 1, Limb - 1>>

RECURSIVE BitOr(_, _)
BitOr(a, b) ==
    IF a = 0 THEN b
    ELSE IF b = 0 THEN a
    ELSE (IF a % 2 = 1 \/ b % 2 = 1 THEN 1 ELSE 0) + 2 * BitOr(a \div 2, b \div 2)

RECURSIVE Pow2(_)
Pow2(k) == IF k = 0 THEN 1 ELSE 2 * Pow2(k - 1)

\* a |= b on u64
U64Or(a, b) == [i \in 1..4 |-> BitOr(a[i], b[i])]

\* (digit as u64) << s for a 7-bit digit and 0 <= s <= 63; bits past 63 are lost
U64ShlDigit(digit, s) ==
    LET idx == s \div 16
        v == digit * Pow2(s % 16)
    IN [i \in 1..4 |-> IF i = idx + 1 THEN v % Limb
                       ELSE IF i = idx + 2 THEN v \div Limb
                       ELSE 0]

\* n >>= 7 on u64
U64Shr7(n) ==
    [i \in 1..4 |-> (n[i] \div 128) + (IF i < 4 THEN (n[i + 1] % 128) * 512 ELSE 0)]

\* count -= 1 on u64, count > 0
U64Dec(n) ==
    [i \in 1..4 |-> IF \A j \in 1..(i - 1) : n[j] = 0
                    THEN (IF n[i] = 0 THEN Limb - 1 ELSE n[i] - 1)
                    ELSE n[i]]

U64IsZero(n) == \A i \in 1..4 : n[i] = 0

\* Ordering of two limb numbers of the same width: "Less", "Equal" or "Greater"
RECURSIVE LimbCmp(_, _, _)
LimbCmp(a, b, i) ==
    IF i = 0 THEN "Equal"
    ELSE IF a[i] < b[i] THEN "Less"
    ELSE IF a[i] > b[i] THEN "Greater"
    ELSE LimbCmp(a, b, i - 1)

UCmp(a, b) == LimbCmp(a, b, Len(a))

\* u32::to_le_bytes / u64::to_le_bytes / f64::to_le_bytes
to_le_bytes(n) ==
    [i \in 1..(2 * Len(n)) |-> IF i % 2 = 1 THEN n[(i + 1) \div 2] % 256
                               ELSE n[i \div 2] \div 256]

\* u32::from_le_bytes / f64::from_le_bytes
from_le_bytes(bs) ==
    [i \in 1..(Len(bs) \div 2) |-> bs[2 * i - 1] + 256 * bs[2 * i]]

\* u32::from_be_bytes, as the pair [hi, lo] of 16-bit halves
from_be_bytes(buffer) ==
    [hi |-> buffer[1] * 256 + buffer[2], lo |-> buffer[3] * 256 + buffer[4]]

\* u32::to_be_bytes
to_be_bytes(d) ==
    <<d.hi \div 256, d.hi % 256, d.lo \div 256, d.lo % 256>>

\* dword / 85 on u32
Div85(d) ==
    [hi |-> d.hi \div 85, lo |-> ((d.hi % 85) * Limb + d.lo) \div 85]

\* dword % 85 on u32
Mod85(d) == ((d.hi % 85) * Limb + d.lo) % 85

\* dword / 85_u32.pow(k)
RECURSIVE DivPow85(_, _)
DivPow85(d, k) ==
    IF k = 0 THEN d ELSE Let(Div85(d), LAMBDA q : DivPow85(q, k - 1))

\* 85_u32.pow(k), k <= 4
RECURSIVE Pow85(_)
Pow85(k) == IF k = 0 THEN 1 ELSE 85 * Pow85(k - 1)

\* 85_u32.pow(k) * (digit as u32): the wrapped product and whether it overflowed u32
MulPow85(k, digit) ==
    LET p == Pow85(k)
        lo == (p % Limb) * digit
        hi == (p \div Limb) * digit + lo \div Limb
    IN [hi |-> hi % Limb, lo |-> lo % Limb, ovf |-> hi >= Limb]

\* a + b on u32: the wrapped sum and whether any step so far overflowed
AddU32(a, b) ==
    LET lo == a.lo + b.lo
        hi == a.hi + b.hi + lo \div Limb
    IN [hi |-> hi % Limb, lo |-> lo % Limb, ovf |-> a.ovf \/ b.ovf \/ hi >= Limb]

(***************************************************************************)
(* The sink: core::fmt::Write                                              *)
(***************************************************************************)
\* A String never fails; any other Write may fail: `budget` is the number of
\* write_str calls it still accepts.  A failed write_str leaves the text alone.
StringWriter == [text |-> <<>>, can_fail |-> FALSE, budget |-> 0]

FailingWriter(n) == [text |-> <<>>, can_fail |-> TRUE, budget |-> n]

write_str(w, s) ==
    IF w.can_fail /\ w.budget = 0
    THEN [writer |-> w, res |-> "Write"]
    ELSE [writer |-> [w EXCEPT !.text = @ \o s,
                               !.budget = IF w.can_fail THEN @ - 1 ELSE @],
          res |-> "Ok"]

(***************************************************************************)
(* Base85Encoder.  An encoder in the middle of a call is the record        *)
(* [buffer, buffer_i, writer, written, res]: res is "Ok" until a step      *)
(* fails, and `?` returns the failed encoder at once.                      *)
(***************************************************************************)
Base85Encoder_new(w) ==
    [buffer |-> <<0, 0, 0, 0>>, buffer_i |-> 0, writer |-> w,
     written |-> <<>>, res |-> "Ok"]

\* a faulty Base85Digits: the digits least significant first
Base85DigitsReversed(dword) == [k \in 1..5 |-> 33 + Mod85(DivPow85(dword, k - 1))]

\* the five base85 characters of a dword, most significant first
Base85Digits(dword) == [k \in 1..5 |-> 33 + Mod85(DivPow85(dword, 5 - k))]

\* a faulty flush_buffer: 'z' for every group of '!' alone, full or not
flush_buffer_z(e) ==
    IF e.buffer_i = 0 THEN e
    ELSE Let([i \in 1..4 |-> IF i <= e.buffer_i THEN e.buffer[i] ELSE 0],
             LAMBDA filled :
         Let(SubSeq(Base85Digits(from_be_bytes(filled)), 1, 1 + e.buffer_i),
             LAMBDA buffer :
         Let(write_str(e.writer,
                       IF \A i \in 1..Len(buffer) : buffer[i] = 33
                       THEN <<122>> ELSE buffer),
             LAMBDA w :
         [e EXCEPT !.buffer = filled, !.buffer_i = 0,
                   !.writer = w.writer, !.res = w.res])))

\* a faulty flush_buffer: buffer_i is reset only once write_str has succeeded
flush_buffer_reset_late(e) ==
    IF e.buffer_i = 0 THEN e
    ELSE Let([i \in 1..4 |-> IF i <= e.buffer_i THEN e.buffer[i] ELSE 0],
             LAMBDA filled :
         Let(SubSeq(Base85Digits(from_be_bytes(filled)), 1, 1 + e.buffer_i),
             LAMBDA buffer :
         Let(write_str(e.writer,
                       IF buffer = <<33, 33, 33, 33, 33>> THEN <<122>> ELSE buffer),
             LAMBDA w :
         [e EXCEPT !.buffer = filled,
                   !.buffer_i = IF w.res = "Ok" THEN 0 ELSE @,
                   !.writer = w.writer, !.res = w.res])))

flush_buffer(e) ==
    IF e.buffer_i = 0 THEN e
    ELSE Let([i \in 1..4 |-> IF i <= e.buffer_i THEN e.buffer[i] ELSE 0],
             LAMBDA filled :
         Let(SubSeq(Base85Digits(from_be_bytes(filled)), 1, 1 + e.buffer_i),
             LAMBDA buffer :
         Let(write_str(e.writer,
                       IF buffer = <<33, 33, 33, 33, 33>> THEN <<122>> ELSE buffer),
             LAMBDA w :
         [e EXCEPT !.buffer = filled, !.buffer_i = 0,
                   !.writer = w.writer, !.res = w.res])))

\* buffer[buffer_i] panics on an index past the 4-byte buffer
write(e, byte) ==
    IF e.buffer_i >= 4 THEN [e EXCEPT !.res = "Panic"]
    ELSE Let([e EXCEPT !.buffer[e.buffer_i + 1] = byte,
                       !.buffer_i = @ + 1,
                       !.written = Append(@, byte)],
             LAMBDA stored :
         IF stored.buffer_i = 4 THEN flush_buffer(stored) ELSE stored)

\* e? ; F(e)
Try(e, F(_)) == Let(e, LAMBDA e1 : IF e1.res # "Ok" THEN e1 ELSE F(e1))

\* for byte in bytes { writer.write(byte)?; }
RECURSIVE write_all(_, _, _)
write_all(e, bytes, i) ==
    IF i > Len(bytes) THEN e
    ELSE Try(write(e, bytes[i]), LAMBDA e1 : write_all(e1, bytes, i + 1))

RECURSIVE encode_varint(_, _)
encode_varint(e, n) ==
    Let(U64Shr7(n), LAMBDA rest :
    IF ~U64IsZero(rest)
    THEN Try(write(e, (n[1] % 128) + 128), LAMBDA e1 : encode_varint(e1, rest))
    ELSE write(e, n[1] % 128))

encode_f64(e, n) == Let(to_le_bytes(n), LAMBDA bytes : write_all(e, bytes, 1))

encode_u32(e, n) == Let(to_le_bytes(n), LAMBDA bytes : write_all(e, bytes, 1))

(***************************************************************************)
(* decode_dwords_from_base85.  The lazy iterator is a sequence of          *)
(* [b, ovf]: b is the byte, ovf says that computing the byte's group       *)
(* overflowed u8 or u32 arithmetic (a panic with overflow checks, the      *)
(* wrapped value without).  The overflow counts only once a byte of the    *)
(* group is pulled.                                                        *)
(***************************************************************************)
\* b - 33 on u8
CharDigit(c) ==
    IF c >= 33 THEN [lo |-> c - 33, ovf |-> FALSE]
    ELSE [lo |-> c + 223, ovf |-> TRUE]

\* a decoder that takes a missing character for the digit 0
GroupDigitPadZero(chars, i, j) ==
    IF i + j - 1 <= Len(chars) THEN CharDigit(chars[i + j - 1])
    ELSE [lo |-> 0, ovf |-> FALSE]

\* data.next().map_or(85, |b| b - 33) for the j-th character of the group at i
GroupDigit(chars, i, j) ==
    IF i + j - 1 <= Len(chars) THEN CharDigit(chars[i + j - 1])
    ELSE [lo |-> 85, ovf |-> FALSE]

\* 85_u32.pow(k) * digit as u32
TimesPow85(k, d) ==
    Let(MulPow85(k, d.lo), LAMBDA m : [m EXCEPT !.ovf = @ \/ d.ovf])

\* the sum of the five products, left to right
RECURSIVE SumDigits(_, _, _, _)
SumDigits(chars, i, j, acc) ==
    IF j > 5 THEN acc
    ELSE Let(AddU32(acc, TimesPow85(5 - j, GroupDigit(chars, i, j))),
             LAMBDA sum : SumDigits(chars, i, j + 1, sum))

\* one step of the from_fn closure, on the group that starts at chars[i]
DecodeGroup(chars, i) ==
    IF chars[i] = 122
    THEN [bytes |-> <<0, 0, 0, 0>>, ovf |-> FALSE, used |-> 1]
    ELSE Let(SumDigits(chars, i, 1, [hi |-> 0, lo |-> 0, ovf |-> FALSE]),
             LAMBDA dword :
         [bytes |-> to_be_bytes(dword), ovf |-> dword.ovf,
          used |-> IF Len(chars) - i + 1 < 5 THEN Len(chars) - i + 1 ELSE 5])

RECURSIVE DecodeGroupsFrom(_, _)
DecodeGroupsFrom(chars, i) ==
    IF i > Len(chars) THEN <<>>
    ELSE Let(DecodeGroup(chars, i), LAMBDA g :
         [k \in 1..4 |-> [b |-> g.bytes[k], ovf |-> g.ovf]]
         \o DecodeGroupsFrom(chars, i + g.used))

decode_dwords_from_base85(chars) == DecodeGroupsFrom(chars, 1)

\* the bytes of a decoded stream
Bytes(s) == [i \in 1..Len(s) |-> s[i].b]

(***************************************************************************)
(* Readers.  A reader is [s, p, ovf]: the stream, the number of bytes      *)
(* pulled, and whether arithmetic overflowed so far.  A read returns       *)
(* [ok, val, err, r].                                                      *)
(***************************************************************************)
Reader(s) == [s |-> s, p |-> 0, ovf |-> FALSE]

UnexpectedEof == [kind |-> "UnexpectedEof", arg |-> 0]

MissingSignature == [kind |-> "MissingSignature", arg |-> 0]

NonTrivial == [kind |-> "NonTrivial", arg |-> 0]

UnknownNoteType(t) == [kind |-> "UnknownNoteType", arg |-> t]

UnknownTempoEventType(t) == [kind |-> "UnknownTempoEventType", arg |-> t]

\* a panic that no build avoids
Panic == [kind |-> "Panic", arg |-> 0]

NoError == [kind |-> "None", arg |-> 0]

Ok(v, r) == [ok |-> TRUE, val |-> v, err |-> NoError, r |-> r]

Err(e, r) == [ok |-> FALSE, val |-> <<>>, err |-> e, r |-> r]

\* x? ; F(x)
TryRead(x, F(_)) == Let(x, LAMBDA x1 : IF ~x1.ok THEN x1 ELSE F(x1))

\* data.next().ok_or(DecodeError::UnexpectedEof)
next(r) ==
    IF r.p < Len(r.s)
    THEN Ok(r.s[r.p + 1].b, [r EXCEPT !.p = @ + 1, !.ovf = @ \/ r.s[r.p + 1].ovf])
    ELSE Err(UnexpectedEof, r)

\* The loop of decode_varint from step i on.  A shift by 64 bits or more is an
\* overflow: without overflow checks the shift amount is taken modulo 64.
RECURSIVE decode_varint_from(_, _, _)
decode_varint_from(r, acc, i) ==
    TryRead(next(r), LAMBDA n :
    Let(U64Or(acc, U64ShlDigit(n.val % 128, (7 * i) % 64)), LAMBDA acc2 :
    Let([n.r EXCEPT !.ovf = @ \/ 7 * i >= 64], LAMBDA r2 :
    IF n.val < 128 THEN Ok(acc2, r2) ELSE decode_varint_from(r2, acc2, i + 1))))

\* a faulty decode_varint: the first digit is shifted by 7 bits already
decode_varint_shifted(r) == decode_varint_from(r, U64(0), 1)

decode_varint(r) == decode_varint_from(r, U64(0), 0)

\* n successive data.next()? calls
RECURSIVE next_n(_, _, _)
next_n(r, n, got) ==
    IF n = 0 THEN Ok(got, r)
    ELSE TryRead(next(r), LAMBDA x :
         Let(Append(got, x.val), LAMBDA got2 : next_n(x.r, n - 1, got2)))

decode_f64(r) ==
    TryRead(next_n(r, 8, <<>>), LAMBDA bs : Ok(from_le_bytes(bs.val), bs.r))

decode_u32(r) ==
    TryRead(next_n(r, 4, <<>>), LAMBDA bs : Ok(from_le_bytes(bs.val), bs.r))

(***************************************************************************)
(* Notes.  A Note<P> is [pos, column, kind]; a NoteKind<P> is              *)
(* [tag, end_pos] with end_pos = None for the kinds that carry none.       *)
(* P is u64 (row based) or f64 (time based).                               *)
(***************************************************************************)
None == <<>>

Tap == [tag |-> "Tap", end_pos |-> None]

Hold(end_pos) == [tag |-> "Hold", end_pos |-> end_pos]

Mine == [tag |-> "Mine", end_pos |-> None]

Roll(end_pos) == [tag |-> "Roll", end_pos |-> end_pos]

Lift == [tag |-> "Lift", end_pos |-> None]

Fake == [tag |-> "Fake", end_pos |-> None]

Note(pos, column, kind) == [pos |-> pos, column |-> column, kind |-> kind]

\* f64::partial_cmp on the IEEE-754 bits: "Less", "Equal", "Greater" or "None"
F64IsNaN(a) ==
    /\ (a[4] % 32768) \div 16 = 2047
    /\ (a[4] % 16 # 0 \/ a[3] # 0 \/ a[2] # 0 \/ a[1] # 0)

F64Magnitude(a) == [a EXCEPT ![4] = @ % 32768]

F64Negative(a) == a[4] >= 32768

F64PartialCmp(a, b) ==
    LET ma == F64Magnitude(a)
        mb == F64Magnitude(b)
    IN IF F64IsNaN(a) \/ F64IsNaN(b) THEN "None"
       ELSE IF U64IsZero(ma) /\ U64IsZero(mb) THEN "Equal"
       ELSE IF F64Negative(a) /\ ~F64Negative(b) THEN "Less"
       ELSE IF ~F64Negative(a) /\ F64Negative(b) THEN "Greater"
       ELSE IF F64Negative(a) THEN UCmp(mb, ma)
       ELSE UCmp(ma, mb)

\* P::partial_cmp
PosCmp(a, b, time_based) == IF time_based THEN F64PartialCmp(a, b) ELSE UCmp(a, b)

\* a faulty NoteKeyLe: the positions alone are compared
NoteKeyLePosOnly(a, b, time_based) ==
    PosCmp(a.pos, b.pos, time_based) \in {"Less", "Equal"}

\* (w[0].pos, w[0].column) <= (w[1].pos, w[1].column)
NoteKeyLe(a, b, time_based) ==
    Let(PosCmp(a.pos, b.pos, time_based), LAMBDA c :
    IF c = "Equal" THEN a.column <= b.column ELSE c = "Less")

\* notes.windows(2).all(...)
NotesSorted(notes, time_based) ==
    \A i \in 1..(Len(notes) - 1) : NoteKeyLe(notes[i], notes[i + 1], time_based)

\* note.column | 0x80
Or0x80(b) == IF b >= 128 THEN b ELSE b + 128

\* encode_varint for row positions, encode_f64 for times
position_encode(e, pos, time_based) ==
    IF time_based THEN encode_f64(e, pos) ELSE encode_varint(e, pos)

\* a faulty NoteTypeByte: the tags of Mine and Lift exchanged
NoteTypeByteSwapped(kind) ==
    CASE kind.tag = "Hold" -> 0
      [] kind.tag = "Mine" -> 3
      [] kind.tag = "Roll" -> 2
      [] kind.tag = "Lift" -> 1
      [] kind.tag = "Fake" -> 4

NoteTypeByte(kind) ==
    CASE kind.tag = "Hold" -> 0
      [] kind.tag = "Mine" -> 1
      [] kind.tag = "Roll" -> 2
      [] kind.tag = "Lift" -> 3
      [] kind.tag = "Fake" -> 4

\* the body of the `for note in notes` loop
encode_note(e, note, time_based) ==
    IF note.kind.tag = "Tap"
    THEN Try(write(e, note.column % 128), LAMBDA e1 :
         position_encode(e1, note.pos, time_based))
    ELSE Try(write(e, Or0x80(note.column)), LAMBDA e1 :
         Try(position_encode(e1, note.pos, time_based), LAMBDA e2 :
         Try(position_encode(e2,
                             IF note.kind.tag \in {"Hold", "Roll"}
                             THEN note.kind.end_pos ELSE note.pos,
                             time_based), LAMBDA e3 :
         write(e3, NoteTypeByte(note.kind)))))

RECURSIVE encode_note_list(_, _, _, _)
encode_note_list(e, notes, i, time_based) ==
    IF i > Len(notes) THEN e
    ELSE Try(encode_note(e, notes[i], time_based), LAMBDA e1 :
         encode_note_list(e1, notes, i + 1, time_based))

SigNotes == <<65, 114, 114, 111, 119, 86, 111, 114, 116, 101, 120, 58,
              110, 111, 116, 101, 115, 58>>

SigTempo == <<65, 114, 114, 111, 119, 86, 111, 114, 116, 101, 120, 58,
              116, 101, 109, 112, 111, 58>>

\* What an encode call returns: the writer as it leaves it, the result
\* ("Ok", "NotSorted", "Write"), and the bytes it handed to the encoder.
Returned(e) == [writer |-> e.writer, res |-> e.res, written |-> e.written]

\* a faulty encode_notes: the signature is written before the order is checked
encode_notes_signature_first(w, notes, time_based) ==
    Let(write_str(w, SigNotes), LAMBDA sig :
    IF ~NotesSorted(notes, time_based)
    THEN [writer |-> sig.writer, res |-> "NotSorted", written |-> <<>>]
    ELSE IF sig.res # "Ok"
    THEN [writer |-> sig.writer, res |-> "Write", written |-> <<>>]
    ELSE Let(Try(write(Base85Encoder_new(sig.writer), IF time_based THEN 1 ELSE 0),
                 LAMBDA e1 :
             Try(encode_varint(e1, U64(Len(notes))), LAMBDA e2 :
             Try(encode_note_list(e2, notes, 1, time_based), LAMBDA e3 :
             flush_buffer(e3)))),
             LAMBDA e : Returned(e)))

encode_notes(w, notes, time_based) ==
    IF ~NotesSorted(notes, time_based)
    THEN [writer |-> w, res |-> "NotSorted", written |-> <<>>]
    ELSE Let(write_str(w, SigNotes), LAMBDA sig :
         IF sig.res # "Ok"
         THEN [writer |-> sig.writer, res |-> "Write", written |-> <<>>]
         ELSE Let(Try(write(Base85Encoder_new(sig.writer), IF time_based THEN 1 ELSE 0),
                      LAMBDA e1 :
                  Try(encode_varint(e1, U64(Len(notes))), LAMBDA e2 :
                  Try(encode_note_list(e2, notes, 1, time_based), LAMBDA e3 :
                  flush_buffer(e3)))),
                  LAMBDA e : Returned(e)))

encode_row_based_notes(w, notes) == encode_notes(w, notes, FALSE)

encode_time_based_notes(w, notes) == encode_notes(w, notes, TRUE)

position_decode(r, time_based) ==
    IF time_based THEN decode_f64(r) ELSE decode_varint(r)

\* a faulty decode_note: every type tag above 3 is read as Fake
decode_note_lenient(r, time_based) ==
    TryRead(next(r), LAMBDA first :
    TryRead(position_decode(first.r, time_based), LAMBDA pos :
    IF first.val < 128 THEN Ok(Note(pos.val, first.val % 128, Tap), pos.r)
    ELSE TryRead(position_decode(pos.r, time_based), LAMBDA end_pos :
         TryRead(next(end_pos.r), LAMBDA t :
         Let(first.val % 128, LAMBDA column :
         CASE t.val = 0 -> Ok(Note(pos.val, column, Hold(end_pos.val)), t.r)
           [] t.val = 1 -> Ok(Note(pos.val, column, Mine), t.r)
           [] t.val = 2 -> Ok(Note(pos.val, column, Roll(end_pos.val)), t.r)
           [] t.val = 3 -> Ok(Note(pos.val, column, Lift), t.r)
           [] OTHER -> Ok(Note(pos.val, column, Fake), t.r))))))

\* one step of the closure in decode_notes
decode_note(r, time_based) ==
    TryRead(next(r), LAMBDA first :
    TryRead(position_decode(first.r, time_based), LAMBDA pos :
    IF first.val < 128 THEN Ok(Note(pos.val, first.val % 128, Tap), pos.r)
    ELSE TryRead(position_decode(pos.r, time_based), LAMBDA end_pos :
         TryRead(next(end_pos.r), LAMBDA t :
         Let(first.val % 128, LAMBDA column :
         CASE t.val = 0 -> Ok(Note(pos.val, column, Hold(end_pos.val)), t.r)
           [] t.val = 1 -> Ok(Note(pos.val, column, Mine), t.r)
           [] t.val = 2 -> Ok(Note(pos.val, column, Roll(end_pos.val)), t.r)
           [] t.val = 3 -> Ok(Note(pos.val, column, Lift), t.r)
           [] t.val = 4 -> Ok(Note(pos.val, column, Fake), t.r)
           [] OTHER -> Err(UnknownNoteType(t.val), t.r))))))

\* (0..size).map(closure).collect(): stops at the first Err
RECURSIVE collect_notes(_, _, _, _)
collect_notes(r, size, notes, time_based) ==
    IF U64(Len(notes)) = size THEN Ok(notes, r)
    ELSE TryRead(decode_note(r, time_based), LAMBDA n :
         Let(Append(notes, n.val), LAMBDA notes2 :
         collect_notes(n.r, size, notes2, time_based)))

decode_notes(r, time_based) ==
    TryRead(decode_varint(r), LAMBDA size :
    collect_notes(size.r, size.val, <<>>, time_based))

(***************************************************************************)
(* Tempo events.  A TempoEvent is [row, kind]; a TempoEventKind is         *)
(* [tag, f] with f the tuple of the variant's fields in declaration order. *)
(* row and the u32 fields are u32, the f64 fields are f64 bits,            *)
(* delay_is_time is a BOOLEAN and a Label's message a sequence of bytes.   *)
(***************************************************************************)
Bpm(bpm) == [tag |-> "Bpm", f |-> <<bpm>>]

Stop(time) == [tag |-> "Stop", f |-> <<time>>]

Delay(time) == [tag |-> "Delay", f |-> <<time>>]

Warp(num_skipped_rows) == [tag |-> "Warp", f |-> <<num_skipped_rows>>]

TimeSignature(numerator, denominator) ==
    [tag |-> "TimeSignature", f |-> <<numerator, denominator>>]

Ticks(num_ticks) == [tag |-> "Ticks", f |-> <<num_ticks>>]

Combo(combo_multiplier, miss_multiplier) ==
    [tag |-> "Combo", f |-> <<combo_multiplier, miss_multiplier>>]

Speed(ratio, delay, delay_is_time) ==
    [tag |-> "Speed", f |-> <<ratio, delay, delay_is_time>>]

Scroll(ratio) == [tag |-> "Scroll", f |-> <<ratio>>]

FakeSegment(num_fake_rows) == [tag |-> "FakeSegment", f |-> <<num_fake_rows>>]

Label(message) == [tag |-> "Label", f |-> <<message>>]

TempoEvent(row, kind) == [row |-> row, kind |-> kind]

tempo_event_kind(kind) ==
    CASE kind.tag = "Bpm" -> 0
      [] kind.tag = "Stop" -> 1
      [] kind.tag = "Delay" -> 2
      [] kind.tag = "Warp" -> 3
      [] kind.tag = "TimeSignature" -> 4
      [] kind.tag = "Ticks" -> 5
      [] kind.tag = "Combo" -> 6
      [] kind.tag = "Speed" -> 7
      [] kind.tag = "Scroll" -> 8
      [] kind.tag = "FakeSegment" -> 9
      [] kind.tag = "Label" -> 10

\* (tempo_event_kind(&w[0].kind), w[0].row) <= (tempo_event_kind(&w[1].kind), w[1].row)
TempoKeyLe(a, b) ==
    Let(tempo_event_kind(a.kind), LAMBDA ka :
    Let(tempo_event_kind(b.kind), LAMBDA kb :
    IF ka = kb THEN UCmp(a.row, b.row) # "Greater" ELSE ka < kb))

\* tempo_events.windows(2).all(...)
TempoSorted(events) ==
    \A i \in 1..(Len(events) - 1) : TempoKeyLe(events[i], events[i + 1])

\* slice.iter().position(|x| key(x) != group_key).unwrap_or(slice.len()), for
\* the slice that starts at events[from]: the index of the group's last event
RECURSIVE group_end(_, _, _)
group_end(events, group_key, i) ==
    IF i > Len(events) THEN Len(events)
    ELSE IF tempo_event_kind(events[i].kind) # group_key THEN i - 1
    ELSE group_end(events, group_key, i + 1)

\* group_by(tempo_events, |ev| tempo_event_kind(&ev.kind)), from events[from] on
RECURSIVE group_by_from(_, _)
group_by_from(events, from) ==
    IF from > Len(events) THEN <<>>
    ELSE Let(tempo_event_kind(events[from].kind), LAMBDA group_key :
         Let(group_end(events, group_key, from), LAMBDA last :
         <<[kind |-> group_key, events |-> SubSeq(events, from, last)]>>
         \o group_by_from(events, last + 1)))

\* a faulty group_by: every event is a group of its own
group_by_each(events) ==
    [i \in 1..Len(events) |->
        [kind |-> tempo_event_kind(events[i].kind), events |-> <<events[i]>>]]

group_by(events) == group_by_from(events, 1)

encode_single_tempo_event(e, event) ==
    Let(event.kind.tag, LAMBDA tag :
    Let(event.kind.f, LAMBDA f :
    Try(encode_u32(e, event.row), LAMBDA row :
    CASE tag \in {"Bpm", "Stop", "Delay", "Scroll"} -> encode_f64(row, f[1])
      [] tag \in {"Warp", "Ticks", "FakeSegment"} -> encode_u32(row, f[1])
      [] tag \in {"TimeSignature", "Combo"} ->
             Try(encode_u32(row, f[1]), LAMBDA e1 : encode_u32(e1, f[2]))
      [] tag = "Speed" ->
             Try(encode_f64(row, f[1]), LAMBDA e1 :
             Try(encode_f64(e1, f[2]), LAMBDA e2 :
             encode_u32(e2, IF f[3] THEN U32(1) ELSE U32(0))))
      [] tag = "Label" ->
             Try(encode_varint(row, U64(Len(f[1]))), LAMBDA e1 :
             write_all(e1, f[1], 1)))))

RECURSIVE encode_event_list(_, _, _)
encode_event_list(e, events, i) ==
    IF i > Len(events) THEN e
    ELSE Try(encode_single_tempo_event(e, events[i]), LAMBDA e1 :
         encode_event_list(e1, events, i + 1))

\* the `for (kind, events) in group_by(...)` loop
RECURSIVE encode_groups(_, _, _)
encode_groups(e, groups, i) ==
    IF i > Len(groups) THEN e
    ELSE Try(encode_varint(e, U64(Len(groups[i].events))), LAMBDA e1 :
         Try(write(e1, groups[i].kind), LAMBDA e2 :
         Try(encode_event_list(e2, groups[i].events, 1), LAMBDA e3 :
         encode_groups(e3, groups, i + 1))))

encode_tempo(w, tempo_events) ==
    IF ~TempoSorted(tempo_events)
    THEN [writer |-> w, res |-> "NotSorted", written |-> <<>>]
    ELSE Let(write_str(w, SigTempo), LAMBDA sig :
         IF sig.res # "Ok"
         THEN [writer |-> sig.writer, res |-> "Write", written |-> <<>>]
         ELSE Let(group_by(tempo_events), LAMBDA groups :
              Let(Try(encode_groups(Base85Encoder_new(sig.writer), groups, 1),
                      LAMBDA e1 :
                  Try(encode_varint(e1, U64(0)), LAMBDA e2 :
                  flush_buffer(e2))),
                  LAMBDA e : Returned(e))))

\* the `for _ in 0..message_len` loop of a Label
RECURSIVE read_message(_, _, _)
read_message(r, message_len, message) ==
    IF U64(Len(message)) = message_len THEN Ok(message, r)
    ELSE TryRead(next(r), LAMBDA b :
         Let(Append(message, b.val), LAMBDA message2 :
         read_message(b.r, message_len, message2)))

\* one field after another, each with `?`: a width of 8 is an f64, of 4 a u32
RECURSIVE read_fields(_, _, _, _)
read_fields(r, widths, i, got) ==
    IF i > Len(widths) THEN Ok(got, r)
    ELSE TryRead(IF widths[i] = 8 THEN decode_f64(r) ELSE decode_u32(r), LAMBDA x :
         Let(Append(got, x.val), LAMBDA got2 :
         read_fields(x.r, widths, i + 1, got2)))

\* a variant whose fields are all f64 or u32
FixedFields(r, pos, tag, widths) ==
    TryRead(read_fields(r, widths, 1, <<>>), LAMBDA fs :
    Ok(TempoEvent(pos, [tag |-> tag, f |-> fs.val]), fs.r))

\* Vec::with_capacity(message_len as usize) panics past isize::MAX
decode_single_tempo_event(r, kind) ==
    TryRead(decode_u32(r), LAMBDA pos :
    CASE kind = 0 -> FixedFields(pos.r, pos.val, "Bpm", <<8>>)
      [] kind = 1 -> FixedFields(pos.r, pos.val, "Stop", <<8>>)
      [] kind = 2 -> FixedFields(pos.r, pos.val, "Delay", <<8>>)
      [] kind = 3 -> FixedFields(pos.r, pos.val, "Warp", <<4>>)
      [] kind = 4 -> FixedFields(pos.r, pos.val, "TimeSignature", <<4, 4>>)
      [] kind = 5 -> FixedFields(pos.r, pos.val, "Ticks", <<4>>)
      [] kind = 6 -> FixedFields(pos.r, pos.val, "Combo", <<4, 4>>)
      [] kind = 7 ->
            TryRead(read_fields(pos.r, <<8, 8, 4>>, 1, <<>>), LAMBDA fs :
            Ok(TempoEvent(pos.val, Speed(fs.val[1], fs.val[2], fs.val[3] # U32(0))),
               fs.r))
      [] kind = 8 -> FixedFields(pos.r, pos.val, "Scroll", <<8>>)
      [] kind = 9 -> FixedFields(pos.r, pos.val, "FakeSegment", <<4>>)
      [] kind = 10 ->
            TryRead(decode_varint(pos.r), LAMBDA message_len :
            IF message_len.val[4] >= 32768 THEN Err(Panic, message_len.r)
            ELSE TryRead(read_message(message_len.r, message_len.val, <<>>),
                         LAMBDA m :
                 Ok(TempoEvent(pos.val, Label(m.val)), m.r)))
      [] OTHER -> Err(UnknownTempoEventType(kind), pos.r))

\* The from_fn closure of decode_tempo, called until it returns None or an Err.
\* kind = -1 stands for None.
RECURSIVE collect_tempo(_, _, _, _)
collect_tempo(r, count, kind, events) ==
    IF U64IsZero(count) THEN Ok(events, r)
    ELSE TryRead(IF kind = -1 THEN next(r) ELSE Ok(kind, r), LAMBDA k :
         Let(decode_single_tempo_event(k.r, k.val), LAMBDA event :
         Let(U64Dec(count), LAMBDA count1 :
         IF event.err = Panic THEN event
         ELSE IF U64IsZero(count1)
         THEN TryRead(decode_varint(event.r), LAMBDA c :
              IF ~event.ok THEN Err(event.err, c.r)
              ELSE Let(Append(events, event.val), LAMBDA events2 :
                   collect_tempo(c.r, c.val, -1, events2)))
         ELSE IF ~event.ok THEN event
         ELSE Let(Append(events, event.val), LAMBDA events2 :
              collect_tempo(event.r, count1, k.val, events2)))))

decode_tempo(r) ==
    TryRead(decode_varint(r), LAMBDA count :
    collect_tempo(count.r, count.val, -1, <<>>))

\* data.strip_prefix(sig)
HasPrefix(text, sig) ==
    Len(text) >= Len(sig) /\ SubSeq(text, 1, Len(sig)) = sig

StripPrefix(text, sig) == SubSeq(text, Len(sig) + 1, Len(text))

\* What decode returns: Ok(variant(val)) or Err(err); ovf says that arithmetic
\* overflowed on the way, so a build with overflow checks panics instead.
Decoded(variant, x) ==
    [ok |-> x.ok, variant |-> IF x.ok THEN variant ELSE "None",
     val |-> x.val, err |-> x.err, ovf |-> x.r.ovf]

\* a decode that takes a first notes byte of 2 for a non-trivial marker
decode_stream_marker(r, is_tempo) ==
    IF is_tempo
    THEN Let(decode_tempo(r), LAMBDA x : Decoded("TempoEvents", x))
    ELSE Let(next(r), LAMBDA flag :
         IF ~flag.ok THEN Decoded("None", flag)
         ELSE IF flag.val = 2 THEN Decoded("None", Err(NonTrivial, flag.r))
         ELSE IF flag.val # 0
         THEN Let(decode_notes(flag.r, TRUE), LAMBDA x : Decoded("TimeBasedNotes", x))
         ELSE Let(decode_notes(flag.r, FALSE), LAMBDA x : Decoded("RowBasedNotes", x)))

\* the body of decode once the signature is stripped, on the byte iterator r
decode_stream(r, is_tempo) ==
    IF is_tempo
    THEN Let(decode_tempo(r), LAMBDA x : Decoded("TempoEvents", x))
    ELSE Let(next(r), LAMBDA flag :
         IF ~flag.ok THEN Decoded("None", flag)
         ELSE IF flag.val # 0
         THEN Let(decode_notes(flag.r, TRUE), LAMBDA x : Decoded("TimeBasedNotes", x))
         ELSE Let(decode_notes(flag.r, FALSE), LAMBDA x : Decoded("RowBasedNotes", x)))

decode(text) ==
    IF HasPrefix(text, SigNotes)
    THEN Let(Reader(decode_dwords_from_base85(StripPrefix(text, SigNotes))),
             LAMBDA r : decode_stream(r, FALSE))
    ELSE IF HasPrefix(text, SigTempo)
    THEN Let(Reader(decode_dwords_from_base85(StripPrefix(text, SigTempo))),
             LAMBDA r : decode_stream(r, TRUE))
    ELSE [ok |-> FALSE, variant |-> "None", val |-> <<>>,
          err |-> MissingSignature, ovf |-> FALSE]

(***************************************************************************)
(* Inputs                                                                  *)
(***************************************************************************)
MaxNotes == 2

MaxTimeNotes == 2

MaxEvents == 2

MaxBudget == 1

\* all sequences over S of length at most n
SeqsUpTo(S, n) == UNION {[1..k -> S] : k \in 0..n}

\* (pos, column) keys of row based notes; 200 is a column outside 0..127
RowKeys == {<<U64(0), 3>>, <<U64(0), 127>>, <<U64(300), 200>>, <<MaxU64, 0>>}

RowKinds == {Tap, Hold(U64(300))}

\* every key as a Tap and as a Hold, and the four other kinds on one key each
RowNotes ==
    {Note(k[1], k[2], kind) : k \in RowKeys, kind \in RowKinds}
    \cup {Note(U64(0), 127, Roll(MaxU64)), Note(MaxU64, 0, Mine),
          Note(U64(0), 3, Lift), Note(MaxU64, 0, Fake)}

\* the notes of the documentation examples of encode_row_based_notes and decode
DocNotes ==
    <<Note(U64(0), 0, Tap), Note(U64(12), 1, Tap),
      Note(U64(24), 2, Tap), Note(U64(36), 3, Tap)>>

RowInputs == SeqsUpTo(RowNotes, MaxNotes) \cup {DocNotes}

\* f64 bits: 0.0, -0.0, 0.25, 0.5, -1.0, 120.0 and a NaN
F64Zero == <<0, 0, 0, 0>>

F64NegZero == <<0, 0, 0, 32768>>

F64Quarter == <<0, 0, 0, 16336>>

F64Half == <<0, 0, 0, 16352>>

F64MinusOne == <<0, 0, 0, 49136>>

F64OneTwenty == <<0, 0, 0, 16478>>

F64NaN == <<0, 0, 0, 32760>>

TimeKeys == {<<F64Zero, 0>>, <<F64NegZero, 1>>, <<F64Quarter, 0>>,
             <<F64MinusOne, 2>>, <<F64NaN, 0>>}

TimeKinds == {Tap, Hold(F64Half)}

TimeNotes == {Note(k[1], k[2], kind) : k \in TimeKeys, kind \in TimeKinds}

TimeInputs == SeqsUpTo(TimeNotes, MaxTimeNotes)

TempoKinds ==
    {Bpm(F64OneTwenty), Stop(F64Quarter), Delay(F64NaN), Warp(U32(24)),
     TimeSignature(U32(3), U32(4)), Ticks(MaxU32), Combo(U32(1), U32(70000)),
     Speed(F64Half, F64Zero, TRUE), Speed(F64Half, F64Zero, FALSE),
     Scroll(F64MinusOne), FakeSegment(U32(0)), Label(<<>>), Label(<<104, 105, 0>>)}

\* every kind at row 0, and three of them at the last row as well
LateKinds == {Bpm(F64OneTwenty), Warp(U32(24)), Label(<<104, 105, 0>>)}

TempoEvents ==
    {TempoEvent(U32(0), kind) : kind \in TempoKinds}
    \cup {TempoEvent(MaxU32, kind) : kind \in LateKinds}

TempoInputs == SeqsUpTo(TempoEvents, MaxEvents)

\* a String with text in it already, and writers that fail after n writes
UsedString == [text |-> <<120>>, can_fail |-> FALSE, budget |-> 0]

Writers == {StringWriter, UsedString} \cup {FailingWriter(n) : n \in 0..MaxBudget}

(***************************************************************************)
(* State                                                                   *)
(***************************************************************************)
NoEncoder == Base85Encoder_new(StringWriter)

NoInput == [what |-> "none", val |-> <<>>, before |-> <<>>]

NoResult == [res |-> "none"]

NoDecoded ==
    [ok |-> FALSE, variant |-> "None", val |-> <<>>, err |-> NoError]

NoData == Reader(<<>>)

Init ==
    /\ writer = StringWriter
    /\ encoder = NoEncoder
    /\ written = <<>>
    /\ input = NoInput
    /\ call = "new"
    /\ result = NoResult
    /\ clipboard = <<>>
    /\ decoded = NoDecoded
    /\ data = NoData

(***************************************************************************)
(* The public functions: encode_row_based_notes, encode_time_based_notes,  *)
(* encode_tempo and decode                                                 *)
(***************************************************************************)
\* a new writer is handed to the library: String::new(), a String with text
\* in it, or another Write
NewWriter(w) ==
    /\ call # "new" \/ w # writer
    /\ writer' = w
    /\ written' = <<>>
    /\ input' = NoInput
    /\ call' = "new"
    /\ result' = NoResult
    /\ clipboard' = <<>>
    /\ decoded' = NoDecoded
    /\ UNCHANGED <<encoder, data>>

\* an encode call returned r; input.before is the text the writer held
Encoded(name, what, val, r) ==
    /\ call = "new"
    /\ writer' = r.writer
    /\ written' = r.written
    /\ input' = [what |-> what, val |-> val, before |-> writer.text]
    /\ call' = name
    /\ result' = [res |-> r.res]
    /\ UNCHANGED <<encoder, clipboard, decoded, data>>

EncodeRowBasedNotes(notes) ==
    Encoded("encode_row_based_notes", "row", notes,
            encode_row_based_notes(writer, notes))

EncodeTimeBasedNotes(notes) ==
    Encoded("encode_time_based_notes", "time", notes,
            encode_time_based_notes(writer, notes))

EncodeTempo(tempo_events) ==
    Encoded("encode_tempo", "tempo", tempo_events,
            encode_tempo(writer, tempo_events))

EncodeCalls == {"encode_row_based_notes", "encode_time_based_notes", "encode_tempo"}

\* What a call of decode can come to: its return value, or a panic when
\* arithmetic overflowed on the way and the build checks overflow.
Outcomes(d) ==
    {[ok |-> d.ok, variant |-> d.variant, val |-> d.val, err |-> d.err]}
    \cup (IF d.ovf
          THEN {[ok |-> FALSE, variant |-> "None", val |-> <<>>, err |-> Panic]}
          ELSE {})

\* decode(data) on the text the encode call wrote
Decode ==
    /\ call \in EncodeCalls
    /\ result.res = "Ok"
    /\ clipboard' = StripPrefix(writer.text, input.before)
    /\ \E d \in Outcomes(decode(clipboard')) : decoded' = d
    /\ call' = "decode"
    /\ UNCHANGED <<writer, encoder, written, input, result, data>>

Next ==
    \/ \E w \in Writers : NewWriter(w)
    \/ \E notes \in RowInputs : EncodeRowBasedNotes(notes)
    \/ \E notes \in TimeInputs : EncodeTimeBasedNotes(notes)
    \/ \E tempo_events \in TempoInputs : EncodeTempo(tempo_events)
    \/ Decode

Spec == Init /\ [][Next]_vars

(***************************************************************************)
(* The base85 transcoder and the varint codec on their own: a              *)
(* Base85Encoder is made on a writer, bytes and varints are written to it, *)
(* it is flushed, and text is decoded back into bytes and varints.         *)
(***************************************************************************)
MaxWritten == 4

MaxVarintAt == 2

MaxText == 5

WrittenBytes == {0, 1, 255}

\* '!', 's', 'u', 'z'
TextChars == {33, 115, 117, 122}

Texts == SeqsUpTo(TextChars, MaxText)

\* the bytes test_base85_encoder writes
TestBytes == <<201, 232, 201, 25, 220, 44, 126, 14>>

\* "alphagamma", the text test_base85_encoder expects
AlphaGamma == <<97, 108, 112, 104, 97, 103, 97, 109, 109, 97>>

\* byte sequences written in one loop: the test's bytes, their prefixes that
\* end inside a group, and groups with the largest bytes
SampleBytes ==
    {TestBytes, SubSeq(TestBytes, 1, 1), SubSeq(TestBytes, 1, 2),
     SubSeq(TestBytes, 1, 3), SubSeq(TestBytes, 1, 5), SubSeq(TestBytes, 1, 6),
     SubSeq(TestBytes, 1, 7), <<255, 255, 255, 255, 255, 255, 255>>,
     <<128, 84, 85>>, <<0, 0, 0, 0, 0, 0, 132>>}

\* 0, 1, 127, 128, 16383, 16384, 58301, 2^32, 2^63 - 1, 2^63, 2^64 - 1
VarintValues ==
    {U64(0), U64(1), U64(127), U64(128), U64(16383), U64(16384), U64(58301),
     <<0, 0, 1, 0>>, <<Limb - 1, Limb - 1, Limb - 1, 32767>>, <<0, 0, 0, 32768>>,
     MaxU64}

\* bytes.iter().copied(): the bytes themselves as the iterator
RawReader(bytes) == Reader([i \in 1..Len(bytes) |-> [b |-> bytes[i], ovf |-> FALSE]])

InitB85 ==
    /\ writer = StringWriter
    /\ encoder = Base85Encoder_new(StringWriter)
    /\ written = <<>>
    /\ input = NoInput
    /\ call = "new"
    /\ result = NoResult
    /\ clipboard = <<>>
    /\ decoded = NoDecoded
    /\ data = NoData

\* Base85Encoder::new(writer)
B85New(w) ==
    /\ call # "new" \/ w # writer
    /\ writer' = w
    /\ encoder' = Base85Encoder_new(w)
    /\ written' = <<>>
    /\ input' = NoInput
    /\ call' = "new"
    /\ result' = NoResult
    /\ clipboard' = <<>>
    /\ decoded' = NoDecoded
    /\ data' = NoData

\* the encoder is in use: nothing failed and flush_buffer has not ended the call
Encoding ==
    /\ call \in {"new", "write", "write_all", "encode_varint"}
    /\ encoder.res = "Ok"

\* The encoder after a call, and the bytes the call handed to write;
\* input.val lists the calls made on the encoder so far.
Stepped(op, arg, e) ==
    /\ encoder' = e
    /\ writer' = e.writer
    /\ written' = SubSeq(e.written, Len(encoder.written) + 1, Len(e.written))
    /\ input' = [what |-> "calls",
                 val |-> Append(input.val, [op |-> op, arg |-> arg,
                                            bytes |-> written', res |-> e.res]),
                 before |-> <<>>]
    /\ call' = op
    /\ result' = [res |-> e.res]
    /\ UNCHANGED <<clipboard, decoded, data>>

B85Write(byte) ==
    /\ Encoding
    /\ Len(encoder.written) < MaxWritten
    /\ Stepped("write", byte, write(encoder, byte))

\* for &byte in bytes { encoder.write(byte)?; } on a new encoder
B85WriteAll(bytes) ==
    /\ call = "new"
    /\ Stepped("write_all", bytes, write_all(encoder, bytes, 1))

B85EncodeVarint(n) ==
    /\ Encoding
    /\ Len(encoder.written) < MaxVarintAt
    /\ Stepped("encode_varint", n, encode_varint(encoder, n))

B85Flush ==
    /\ Encoding
    /\ encoder' = flush_buffer(encoder)
    /\ writer' = encoder'.writer
    /\ call' = "flush_buffer"
    /\ result' = [res |-> encoder'.res]
    /\ UNCHANGED <<written, input, clipboard, decoded, data>>

\* decode_dwords_from_base85(text), on the text the encoder wrote or on a text
\* of its own: the iterator, nothing pulled yet
B85DecodeDwords(text) ==
    /\ \/ call = "flush_buffer" /\ text = encoder.writer.text
       \/ call = "new" /\ writer = StringWriter /\ text \in Texts \cup {AlphaGamma}
    /\ clipboard' = text
    /\ data' = Reader(decode_dwords_from_base85(text))
    /\ decoded' = NoDecoded
    /\ call' = "decode_dwords_from_base85"
    /\ UNCHANGED <<writer, encoder, written, input, result>>

\* the bytes themselves as the iterator, as test_decode_varint does
B85Iterate ==
    /\ call = "flush_buffer"
    /\ clipboard' = <<>>
    /\ data' = RawReader(encoder.written)
    /\ decoded' = NoDecoded
    /\ call' = "iter"
    /\ UNCHANGED <<writer, encoder, written, input, result>>

\* decode_varint(&mut data), or a panic of a build that checks overflow
B85DecodeVarint ==
    /\ call \in {"decode_dwords_from_base85", "iter"}
    /\ LET x == decode_varint(data)
       IN /\ data' = x.r
          /\ \E d \in Outcomes(Decoded("varint", x)) : decoded' = d
    /\ call' = "decode_varint"
    /\ UNCHANGED <<writer, encoder, written, input, result, clipboard>>

NextB85 ==
    \/ \E w \in Writers \ {UsedString} : B85New(w)
    \/ \E byte \in WrittenBytes : B85Write(byte)
    \/ \E bytes \in SampleBytes : B85WriteAll(bytes)
    \/ \E n \in VarintValues : B85EncodeVarint(n)
    \/ B85Flush
    \/ /\ call \in {"new", "flush_buffer"}
       /\ \E text \in Texts \cup {AlphaGamma, encoder.writer.text} :
             B85DecodeDwords(text)
    \/ B85Iterate
    \/ B85DecodeVarint

SpecB85 == InitB85 /\ [][NextB85]_vars


(***************************************************************************)
(* One Base85Encoder under any sequence of write and flush_buffer calls:   *)
(* the caller goes on after a call has failed and after a flush.           *)
(***************************************************************************)
MaxCalls == 5

AnyBytes == {0, 255}

\* the encoder when a call on it returns; a panic ends its use
Called(op, e) ==
    /\ encoder' = e
    /\ writer' = e.writer
    /\ call' = op
    /\ result' = [res |-> e.res]
    /\ UNCHANGED <<input, clipboard, decoded, data>>

\* encoder.write(byte), whatever the calls before returned
AnyWrite(byte) ==
    /\ encoder.res # "Panic"
    /\ Len(encoder.written) < MaxCalls
    /\ written' = <<byte>>
    /\ Called("write", write([encoder EXCEPT !.res = "Ok"], byte))

\* encoder.flush_buffer(), whatever the calls before returned
AnyFlush ==
    /\ encoder.res # "Panic"
    /\ written' = <<>>
    /\ Called("flush_buffer", flush_buffer([encoder EXCEPT !.res = "Ok"]))

NextAny ==
    \/ \E w \in Writers \ {UsedString} : B85New(w)
    \/ \E byte \in AnyBytes : AnyWrite(byte)
    \/ AnyFlush

SpecAny == InitB85 /\ [][NextAny]_vars
(***************************************************************************)
(* decode on clipboard texts of any content: byte streams put together     *)
(* record by record, well formed or not, as base85 text behind a           *)
(* signature, whole or cut short.                                          *)
(***************************************************************************)
MaxRecords == 1

MaxCut == 8

\* the bytes a call sequence hands to Base85Encoder::write
VarintBytes(n) == encode_varint(Base85Encoder_new(StringWriter), n).written

NoteBytes(note, time_based) ==
    encode_note(Base85Encoder_new(StringWriter), note, time_based).written

RECURSIVE Flat(_, _)
Flat(seqs, i) == IF i > Len(seqs) THEN <<>> ELSE seqs[i] \o Flat(seqs, i + 1)

\* the encoder after the bytes from bytes[i] on, four at a time
RECURSIVE WriteFrom(_, _, _)
WriteFrom(e, bytes, i) ==
    IF i > Len(bytes) THEN e
    ELSE Let(SubSeq(bytes, i, IF i + 3 < Len(bytes) THEN i + 3 ELSE Len(bytes)),
             LAMBDA four :
         Let(write_all(e, four, 1), LAMBDA e1 : WriteFrom(e1, bytes, i + 4)))

\* the text a Base85Encoder writes for the bytes
Base85Text(bytes) ==
    flush_buffer(WriteFrom(Base85Encoder_new(StringWriter), bytes, 1)).writer.text

\* the number of bytes the base85 text stands for: a group of m < 5
\* characters stands for m - 1 bytes, the rest of its four bytes is padding
RECURSIVE EncodedBytes(_, _)
EncodedBytes(chars, i) ==
    IF i > Len(chars) THEN 0
    ELSE IF chars[i] = 122 THEN 4 + EncodedBytes(chars, i + 1)
    ELSE IF Len(chars) - i + 1 >= 5 THEN 4 + EncodedBytes(chars, i + 5)
    ELSE Len(chars) - i

StreamNotes(time_based) ==
    IF time_based
    THEN {Note(F64Quarter, 1, Tap), Note(F64Half, 2, Roll(F64OneTwenty))}
    ELSE {Note(U64(0), 0, Tap), Note(U64(300), 3, Hold(U64(301))),
          Note(MaxU64, 127, Mine)}

\* type tags and kind tags that no variant has
UnknownTags == {5, 7, 255}

UnknownKinds == {11, 99, 255}

Tails == {<<>>, <<0>>, <<0, 0, 0, 0>>, <<0, 0, 0, 0, 0>>, <<0, 0, 0, 0, 128, 128>>}

\* A notes stream: the time_based flag, the size, `good` well-formed records,
\* then (tag # -1) an extended record with both positions and the type tag
\* `tag`, then the bytes of `tail`.
NotesStream(time_based, size, good, tag, tail) ==
    [is_tempo |-> FALSE, time_based |-> time_based, size |-> size, good |-> good,
     tag |-> tag, tail |-> tail,
     bytes |-> <<IF time_based THEN 1 ELSE 0>> \o VarintBytes(U64(size))
               \o Flat([i \in 1..Len(good) |-> NoteBytes(good[i], time_based)], 1)
               \o (IF tag = -1 THEN <<>>
                   ELSE LET hold == NoteBytes(
                                Note(IF time_based THEN F64Half ELSE U64(300), 2,
                                     Hold(IF time_based THEN F64Half ELSE U64(300))),
                                time_based)
                        IN [hold EXCEPT ![Len(hold)] = tag])
               \o tail]

NotesStreams ==
    UNION {{NotesStream(tb, size, good, tag, tail) :
               size \in 0..(MaxRecords + 2),
               good \in SeqsUpTo(StreamNotes(tb), MaxRecords),
               tag \in UnknownTags \cup {-1}, tail \in {<<>>, <<0>>}} :
           tb \in BOOLEAN}

StreamEvents ==
    {<<>>, <<TempoEvent(U32(0), Bpm(F64OneTwenty))>>,
     <<TempoEvent(U32(48), Warp(U32(24)))>>,
     <<TempoEvent(U32(0), Bpm(F64OneTwenty)), TempoEvent(U32(48), Bpm(F64Half))>>,
     <<TempoEvent(U32(0), Stop(F64Quarter)), TempoEvent(MaxU32, Label(<<104, 105>>))>>}

\* A tempo stream: the runs of `good`, then (kind # -1) the header of a run of
\* `count` events of kind `kind`, then the bytes of `tail`; `closed` streams
\* end with the zero-length run.
TempoStream(good, count, kind, tail, closed) ==
    [is_tempo |-> TRUE, good |-> good, count |-> count, kind |-> kind,
     tail |-> tail, closed |-> closed,
     bytes |-> encode_groups(Base85Encoder_new(StringWriter), group_by(good), 1).written
               \o (IF kind = -1 THEN <<>> ELSE VarintBytes(U64(count)) \o <<kind>>)
               \o tail
               \o (IF closed THEN <<0>> ELSE <<>>)]

TempoStreams ==
    {TempoStream(good, count, kind, tail, closed) :
        good \in StreamEvents, count \in 1..(MaxRecords + 1),
        kind \in UnknownKinds \cup {-1}, tail \in Tails, closed \in BOOLEAN}

Signature(stream) == IF stream.is_tempo THEN SigTempo ELSE SigNotes

InitDecode ==
    /\ writer = StringWriter
    /\ encoder = NoEncoder
    /\ written = <<>>
    /\ input = NoInput
    /\ call = "new"
    /\ result = NoResult
    /\ clipboard = <<>>
    /\ decoded = NoDecoded
    /\ data = NoData

\* the stream is on the clipboard: input.before keeps its bytes, written is
\* the bytes the clipboard text stands for
Copy(stream) ==
    /\ call = "new"
    /\ input' = [what |-> "stream", val |-> stream, before |-> stream.bytes]
    /\ written' = stream.bytes
    /\ clipboard' = Signature(stream) \o Base85Text(stream.bytes)
    /\ call' = "copy"
    /\ UNCHANGED <<writer, encoder, result, decoded, data>>

\* the stream ends after k bytes
CutBytes(k) ==
    /\ call = "copy"
    /\ k < Len(written)
    /\ written' = SubSeq(written, 1, k)
    /\ clipboard' = Signature(input.val) \o Base85Text(written')
    /\ call' = "cut"
    /\ UNCHANGED <<writer, encoder, input, result, decoded, data>>

\* the clipboard text loses its last k characters, the signature stays
CutText(k) ==
    /\ call = "copy"
    /\ k <= Len(clipboard) - Len(Signature(input.val))
    /\ clipboard' = SubSeq(clipboard, 1, Len(clipboard) - k)
    /\ written' = SubSeq(written, 1,
                         EncodedBytes(StripPrefix(clipboard', Signature(input.val)), 1))
    /\ call' = "cut"
    /\ UNCHANGED <<writer, encoder, input, result, decoded, data>>

\* decode(data) on the clipboard text
DecodeClipboard ==
    /\ call \in {"copy", "cut"}
    /\ \E d \in Outcomes(decode(clipboard)) : decoded' = d
    /\ call' = "decode"
    /\ UNCHANGED <<writer, encoder, written, input, result, clipboard, data>>

Discard ==
    /\ call = "decode"
    /\ written' = <<>>
    /\ input' = NoInput
    /\ call' = "new"
    /\ clipboard' = <<>>
    /\ decoded' = NoDecoded
    /\ UNCHANGED <<writer, encoder, result, data>>

NextDecode ==
    \/ \E stream \in NotesStreams \cup TempoStreams : Copy(stream)
    \/ \E k \in 0..MaxCut : CutBytes(k)
    \/ \E k \in 1..MaxCut : CutText(k)
    \/ DecodeClipboard
    \/ Discard

SpecDecode == InitDecode /\ [][NextDecode]_vars


(***************************************************************************)
(* decode on any text: with a signature, with part of one or with none,    *)
(* and a body whose first byte is any value.                               *)
(***************************************************************************)
FlagBytes == {0, 1, 2, 128, 255}

\* nothing, "ArrowVortex:", and the two signatures
Prefixes == {<<>>, SubSeq(SigNotes, 1, 12), SigNotes, SigTempo}

\* the text is the prefix and the base85 text of the bytes of a stream, the
\* first of them replaced by `flag`
PasteBytes(prefix, flag, stream) ==
    /\ call = "new"
    /\ written' = [stream.bytes EXCEPT ![1] = flag]
    /\ input' = [what |-> "text", val |-> prefix, before |-> stream.bytes]
    /\ clipboard' = prefix \o Base85Text(written')
    /\ call' = "copy"
    /\ UNCHANGED <<writer, encoder, result, decoded, data>>

\* the text is the prefix and any characters
PasteText(prefix, text) ==
    /\ call = "new"
    /\ written' = <<>>
    /\ input' = [what |-> "text", val |-> prefix, before |-> <<>>]
    /\ clipboard' = prefix \o text
    /\ call' = "copy"
    /\ UNCHANGED <<writer, encoder, result, decoded, data>>

\* the streams whose bytes are pasted: notes that end with their last record,
\* tempo events that end with the zero-length run
PastedStreams ==
    {s \in NotesStreams : s.tail = <<>>} \cup {s \in TempoStreams : s.closed}

NextText ==
    \/ /\ call = "new"
       /\ \E prefix \in {SigNotes, SigTempo}, flag \in FlagBytes,
             stream \in PastedStreams : PasteBytes(prefix, flag, stream)
    \/ /\ call = "new"
       /\ \E prefix \in Prefixes, text \in Texts : PasteText(prefix, text)
    \/ DecodeClipboard
    \/ Discard

SpecText == InitDecode /\ [][NextText]_vars
(***************************************************************************)
(* Properties                                                              *)
(***************************************************************************)
\* what decode returned on success
Returns(variant, val) ==
    [ok |-> TRUE, variant |-> variant, val |-> val, err |-> NoError]

\* what decode returned on failure
Fails(kind, arg) ==
    [ok |-> FALSE, variant |-> "None", val |-> <<>>,
     err |-> [kind |-> kind, arg |-> arg]]

\* (a.pos, a.column) > (b.pos, b.column) on u64 positions
RowKeyDecreasing(a, b) ==
    \/ UCmp(a.pos, b.pos) = "Greater"
    \/ a.pos = b.pos /\ a.column > b.column

RowNonDecreasing(notes) ==
    \A i \in 1..(Len(notes) - 1) : ~RowKeyDecreasing(notes[i], notes[i + 1])

ColumnsInRange(notes) == \A i \in 1..Len(notes) : notes[i].column \in 0..127

\* (discriminant, row) of a > (discriminant, row) of b
TempoKeyDecreasing(a, b) ==
    \/ tempo_event_kind(a.kind) > tempo_event_kind(b.kind)
    \/ /\ tempo_event_kind(a.kind) = tempo_event_kind(b.kind)
       /\ UCmp(a.row, b.row) = "Greater"

TempoNonDecreasing(events) ==
    \A i \in 1..(Len(events) - 1) : ~TempoKeyDecreasing(events[i], events[i + 1])

\* C1: for a sequence of row based notes that is non-decreasing by
\* (pos, column) with columns in 0..127, encode_row_based_notes on a String
\* succeeds, and decode of the text it wrote returns RowBasedNotes of the same
\* notes: pos, column, kind and end_pos of every note.
C1_RowRoundTrip ==
    (/\ input.what = "row"
     /\ RowNonDecreasing(input.val)
     /\ ColumnsInRange(input.val)
     /\ ~writer.can_fail)
    => /\ result.res = "Ok"
       /\ call = "decode" => decoded = Returns("RowBasedNotes", input.val)

C1_Witness ==
    /\ call = "decode"
    /\ input.what = "row"
    /\ input.val = <<Note(U64(0), 127, Roll(MaxU64)), Note(MaxU64, 0, Mine)>>
    /\ decoded = Returns("RowBasedNotes", input.val)

\* ArrowVortex:notes:!!E9%!=T#H"!d
DocText ==
    SigNotes \o <<33, 33, 69, 57, 37, 33, 61, 84, 35, 72, 34, 33, 100>>

\* C2: encode_row_based_notes of the four Tap notes (0, 0), (12, 1), (24, 2),
\* (36, 3) into an empty String writes exactly ArrowVortex:notes:!!E9%!=T#H"!d,
\* and decode of that text returns RowBasedNotes of the four notes.
C2_DocExample ==
    /\ (/\ input.what = "row"
        /\ input.val = DocNotes
        /\ input.before = <<>>
        /\ ~writer.can_fail)
       => writer.text = DocText
    /\ (call = "decode" /\ clipboard = DocText)
       => decoded = Returns("RowBasedNotes", DocNotes)

C2_Witness ==
    /\ call = "decode"
    /\ input.val = DocNotes
    /\ clipboard = DocText
    /\ Len(clipboard) = Len(SigNotes) + 5 + 5 + 3
    /\ decoded.ok

\* C3: encode_row_based_notes returns NotSorted exactly when some adjacent
\* pair of notes is strictly decreasing by (pos, column), and encode_tempo
\* returns NotSorted exactly when some adjacent pair of events is strictly
\* decreasing by (kind discriminant, row).
C3_Sortedness ==
    /\ call = "encode_row_based_notes"
       => (result.res = "NotSorted" <=> ~RowNonDecreasing(input.val))
    /\ call = "encode_tempo"
       => (result.res = "NotSorted" <=> ~TempoNonDecreasing(input.val))

C3_Witness ==
    /\ call = "encode_row_based_notes"
    /\ Len(input.val) = 2
    /\ input.val[1].pos = input.val[2].pos
    /\ input.val[1].column > input.val[2].column
    /\ result.res = "NotSorted"

\* the stream on the clipboard is whole
Uncut == written = input.before

\* C4: in a notes stream whose records before record k are well formed and
\* whose record k is extended with both positions and a type tag t outside
\* 0..4, decode returns UnknownNoteType{t} and no notes.
C4_UnknownNoteType ==
    (/\ call = "decode"
     /\ ~input.val.is_tempo
     /\ Uncut
     /\ input.val.tag # -1
     /\ input.val.size > Len(input.val.good))
    => decoded = Fails("UnknownNoteType", input.val.tag)

C4_Witness ==
    /\ call = "decode"
    /\ ~input.val.is_tempo
    /\ Uncut
    /\ input.val.time_based
    /\ Len(input.val.good) = 1
    /\ input.val.size = 2
    /\ input.val.tag = 7
    /\ decoded = Fails("UnknownNoteType", 7)

\* C5: in a tempo stream whose runs before run R are well formed and whose
\* run R has a length n > 0 and a kind byte t outside 0..10, decode returns
\* UnknownTempoEventType{t}, whatever n is and whatever follows the kind byte.
C5_UnknownTempoEventType ==
    (/\ call = "decode"
     /\ input.val.is_tempo
     /\ Uncut
     /\ input.val.kind # -1
     /\ input.val.count > 0)
    => decoded = Fails("UnknownTempoEventType", input.val.kind)

\* decode of "ArrowVortex:tempo:!Fl" (a run of one event of kind 99, nothing
\* after the kind byte) returned UnexpectedEof
C5_Divergence ==
    /\ call = "decode"
    /\ input.val.is_tempo
    /\ Uncut
    /\ written = <<1, 99>>
    /\ clipboard = SigTempo \o <<33, 70, 108>>
    /\ decoded = Fails("UnexpectedEof", 0)

\* a stream that decodes as it stands
WellFormed(stream) ==
    IF stream.is_tempo
    THEN stream.kind = -1 /\ stream.tail = <<>> /\ stream.closed
    ELSE stream.tag = -1 /\ stream.tail = <<>> /\ stream.size = Len(stream.good)

\* the bytes left of the stream end inside a field: reading them as they are
\* runs out of input
CutInsideField ==
    /\ ~Uncut
    /\ LET x == decode_stream(RawReader(written), input.val.is_tempo)
       IN ~x.ok /\ x.err = UnexpectedEof

\* C6: decode of a signed clipboard text whose body is cut off inside a field
\* returns UnexpectedEof: it does not abort on arithmetic overflow and it does
\* not return Ok with other values.
C6_Truncated ==
    (/\ call = "decode"
     /\ WellFormed(input.val)
     /\ CutInsideField)
    => decoded = Fails("UnexpectedEof", 0)

\* one Tap note at row 0, cut before its position byte: decode returned a note
C6_Divergence ==
    /\ call = "decode"
    /\ WellFormed(input.val)
    /\ input.before = <<0, 1, 0, 0>>
    /\ written = <<0, 1, 0>>
    /\ CutInsideField
    /\ decoded.ok
    /\ decoded.val # <<Note(U64(0), 0, Tap)>>

\* the runs of a tempo byte stream up to its zero-length run: <<length, kind>>
RECURSIVE SkipEvents(_, _, _)
SkipEvents(r, n, kind) ==
    IF n = 0 THEN Ok(<<>>, r)
    ELSE TryRead(decode_single_tempo_event(r, kind), LAMBDA event :
         SkipEvents(event.r, n - 1, kind))

RECURSIVE RunsOf(_, _)
RunsOf(r, runs) ==
    TryRead(decode_varint(r), LAMBDA count :
    IF U64IsZero(count.val) THEN Ok(runs, count.r)
    ELSE TryRead(next(count.r), LAMBDA kind :
         TryRead(SkipEvents(kind.r, count.val[1], kind.val), LAMBDA skipped :
         Let(Append(runs, <<count.val[1], kind.val>>), LAMBDA runs2 :
         RunsOf(skipped.r, runs2)))))

RECURSIVE SumLengths(_, _)
SumLengths(runs, i) ==
    IF i > Len(runs) THEN 0 ELSE runs[i][1] + SumLengths(runs, i + 1)

\* the bytes are runs of non-zero length with strictly increasing kinds, n
\* events in all, and end with the one zero-length run
RunsInOrder(bytes, n) ==
    LET x == RunsOf(RawReader(bytes), <<>>)
    IN /\ x.ok
       /\ x.r.p = Len(bytes)
       /\ \A i \in 1..Len(x.val) : x.val[i][1] > 0
       /\ \A i \in 1..(Len(x.val) - 1) : x.val[i][2] < x.val[i + 1][2]
       /\ SumLengths(x.val, 1) = n

VarintShape(bytes) ==
    /\ Len(bytes) >= 1
    /\ \A i \in 1..(Len(bytes) - 1) : bytes[i] >= 128
    /\ bytes[Len(bytes)] < 128

\* C8: decode_varint on the bytes encode_varint(v) wrote returns v and pulls
\* exactly those bytes, whatever follows them; encode_varint(0) writes the one
\* byte 0, and every encoding has the high bit set on all bytes but the last.
C8_VarintRoundTrip ==
    /\ \A i \in 1..Len(input.val) :
          (input.val[i].op = "encode_varint" /\ input.val[i].res = "Ok")
          => /\ VarintShape(input.val[i].bytes)
             /\ input.val[i].arg = U64(0) => input.val[i].bytes = <<0>>
    /\ (/\ call = "decode_varint"
        /\ encoder.res = "Ok"
        /\ input.val # <<>>
        /\ input.val[1].op = "encode_varint")
       => /\ decoded = Returns("varint", input.val[1].arg)
          /\ data.p = Len(input.val[1].bytes)

C8_Witness ==
    /\ call = "decode_varint"
    /\ Len(input.val) = 2
    /\ input.val[1].op = "encode_varint"
    /\ input.val[1].arg = U64(58301)
    /\ input.val[1].bytes = <<189, 199, 3>>
    /\ input.val[2].op = "write"
    /\ data.p = 3
    /\ decoded = Returns("varint", U64(58301))

\* C9: the encoder writes 'z' for a group exactly when the group is four zero
\* bytes; a group of k < 4 zero bytes is written as k + 1 characters '!'; the
\* decoder turns both "z" and "!!!!!" into four zero bytes.
C9_ZeroShorthand ==
    [][LET text == encoder.writer.text
           added == SubSeq(encoder'.writer.text, Len(text) + 1,
                           Len(encoder'.writer.text))
           k == IF call' = "write" THEN encoder.buffer_i + 1 ELSE encoder.buffer_i
           n == Len(encoder'.written)
           zero == \A i \in (n - k + 1)..n : encoder'.written[i] = 0
       IN /\ (call' \in {"write", "flush_buffer"} /\ added # <<>>)
             => /\ added = <<122>> <=> (k = 4 /\ zero)
                /\ (k < 4 /\ zero) => added = [i \in 1..(k + 1) |-> 33]
          /\ (/\ call' = "decode_dwords_from_base85"
              /\ clipboard' \in {<<122>>, <<33, 33, 33, 33, 33>>})
             => data'.s = [i \in 1..4 |-> [b |-> 0, ovf |-> FALSE]]]_vars

C9_Witness ==
    /\ call = "decode_dwords_from_base85"
    /\ encoder.written = <<0, 0, 0, 0>>
    /\ encoder.writer.text = <<122>>
    /\ clipboard = <<122>>
    /\ Bytes(data.s) = <<0, 0, 0, 0>>

\* C10: when encode_row_based_notes, encode_time_based_notes or encode_tempo
\* returns NotSorted, the writer is as it was before the call: nothing was
\* written to it, not even the signature.
C10_NoOutputOnNotSorted ==
    [][(call' \in EncodeCalls /\ result'.res = "NotSorted") => writer' = writer]_vars

C10_Witness ==
    /\ call = "encode_time_based_notes"
    /\ result.res = "NotSorted"
    /\ writer = UsedString


\* the calls made on the encoder so far all returned Ok, the flush included
AllOk ==
    /\ input.what = "calls"
    /\ \A i \in 1..Len(input.val) : input.val[i].res = "Ok"
    /\ result.res = "Ok"

\* C11: bytes B (one or more) written one by one to a new Base85Encoder and
\* flushed give a text that decode_dwords_from_base85 turns into
\* 4 * ceil(Len(B) / 4) bytes that begin with B, with no overflow in the
\* decoder's sums; the bytes C9 E8 C9 19 DC 2C 7E 0E give "alphagamma", and
\* "alphagamma" gives those bytes.
C11_Base85RoundTrip ==
    /\ (/\ call = "decode_dwords_from_base85"
        /\ AllOk
        /\ clipboard = encoder.writer.text
        /\ Len(encoder.written) >= 1)
       => LET n == Len(encoder.written)
          IN /\ Len(data.s) = 4 * ((n + 3) \div 4)
             /\ \A i \in 1..Len(data.s) : ~data.s[i].ovf
             /\ SubSeq(Bytes(data.s), 1, n) = encoder.written
    /\ (call = "flush_buffer" /\ AllOk /\ encoder.written = TestBytes)
       => encoder.writer.text = AlphaGamma
    /\ (call = "decode_dwords_from_base85" /\ clipboard = AlphaGamma)
       => data.s = [i \in 1..8 |-> [b |-> TestBytes[i], ovf |-> FALSE]]

C11_Witness ==
    /\ call = "decode_dwords_from_base85"
    /\ AllOk
    /\ encoder.written = <<255, 255, 255, 255, 255, 255, 255>>
    /\ clipboard = encoder.writer.text
    /\ Len(clipboard) = 9
    /\ Len(data.s) = 8
    /\ SubSeq(Bytes(data.s), 1, 7) = encoder.written

\* The stream has a record that cannot be decoded although its bytes are all
\* there: a note with an unknown type tag among the first `size` records, or
\* a tempo event of an unknown kind followed by its four row bytes.
HasBadRecord(stream) ==
    IF stream.is_tempo
    THEN stream.kind # -1 /\ stream.count > 0 /\ Len(stream.tail) >= 4
    ELSE stream.tag # -1 /\ stream.size > Len(stream.good)

\* the error of that record
BadRecordError(stream) ==
    IF stream.is_tempo THEN UnknownTempoEventType(stream.kind)
    ELSE UnknownNoteType(stream.tag)

\* the number of bytes of the stream up to the end of that record: for a
\* tempo event the row that decode_single_tempo_event reads is counted in
BadRecordEnd(stream) ==
    IF stream.is_tempo
    THEN Len(stream.bytes) - (IF stream.closed THEN 1 ELSE 0) - Len(stream.tail) + 4
    ELSE Len(stream.bytes) - Len(stream.tail)

\* the number of bytes decode has pulled from the body of the clipboard text
\* when it returns
Pulled ==
    LET r == Reader(decode_dwords_from_base85(
                        StripPrefix(clipboard, Signature(input.val))))
    IN IF input.val.is_tempo THEN decode_tempo(r).r.p
       ELSE LET flag == next(r)
            IN decode_notes(flag.r, flag.val # 0).r.p

\* C12: when a note or a tempo event fails to decode, decode returns the error
\* of that first failing record, and it has pulled no byte of the body that
\* comes after the record: no further run length, kind byte or record.
C12_ErrorsImmediate ==
    (/\ call = "decode"
     /\ input.what = "stream"
     /\ Uncut
     /\ HasBadRecord(input.val))
    => /\ decoded = [ok |-> FALSE, variant |-> "None", val |-> <<>>,
                     err |-> BadRecordError(input.val)]
       /\ Pulled <= BadRecordEnd(input.val)

\* decode of the tempo stream 01 63 00 00 00 00 80 80 (one event of kind 99
\* with its row, then an unterminated run length) returned UnexpectedEof and
\* had pulled the two bytes after the row
C12_Divergence ==
    /\ call = "decode"
    /\ input.what = "stream"
    /\ Uncut
    /\ written = <<1, 99, 0, 0, 0, 0, 128, 128>>
    /\ clipboard = SigTempo \o <<33, 70, 108, 42, 48, 33, 33, 37, 80, 34>>
    /\ HasBadRecord(input.val)
    /\ BadRecordEnd(input.val) = 6
    /\ Pulled = 8
    /\ decoded = Fails("UnexpectedEof", 0)

\* the same holds of notes: decode of a notes stream with an unknown type tag
\* returned UnknownNoteType and had pulled nothing after the tag
C12_NotesImmediate ==
    (/\ call = "decode"
     /\ input.what = "stream"
     /\ Uncut
     /\ ~input.val.is_tempo
     /\ HasBadRecord(input.val))
    => /\ decoded = Fails("UnknownNoteType", input.val.tag)
       /\ Pulled <= BadRecordEnd(input.val)

\* C13: on return from every write and flush_buffer call on an encoder, calls
\* whose write_str failed included, buffer_i is in 0..3: a write that fills the
\* fourth slot leaves it at 0, so no write indexes past the 4-byte buffer; and
\* flush_buffer called with buffer_i = 0 returns Ok and leaves the writer as
\* it was.
C13_BufferInvariant ==
    [][/\ encoder'.buffer_i \in 0..3
       /\ encoder'.res # "Panic"
       /\ (call' = "write" /\ encoder.buffer_i = 3) => encoder'.buffer_i = 0
       /\ (call' = "flush_buffer" /\ encoder.buffer_i = 0)
          => /\ writer' = writer
             /\ result'.res = "Ok"
             /\ encoder'.buffer_i = 0]_vars

\* four writes whose flush failed, a fifth write, and a flush that failed again
C13_Witness ==
    /\ call = "flush_buffer"
    /\ result.res = "Write"
    /\ writer.can_fail
    /\ writer.text = <<>>
    /\ Len(encoder.written) = 5
    /\ encoder.buffer_i = 0

\* the errors decode returns
ReturnedErrors ==
    {"UnexpectedEof", "MissingSignature", "UnknownNoteType", "UnknownTempoEventType"}

====
